---- MODULE Spec2Model ----
(***************************************************************************)
(* Model of the DIY projects API: the Materials service                    *)
(* (src/materials/types.ts, lines 131-667) and the Projects service        *)
(* (src/projects/projects.ts) over their two relational stores.            *)
(*                                                                         *)
(* Every db.exec statement of a handler is one step of a call; a handler   *)
(* is the step function of its call, and Run applies it until the call     *)
(* returns or throws.  Spec runs each handler as a whole (one request at   *)
(* a time); SpecConc lets two callers interleave the statements of their   *)
(* calls, since the handlers open no transaction and take no lock.         *)
(*                                                                         *)
(* db.exec is read as "run the statement, return its rows".  Prices are    *)
(* DECIMAL(10,2) values, modelled as integer cents.  The clock (NOW(), new *)
(* Date()) reads the ordinal of the request being served: a timestamp      *)
(* column holds the ordinal of the request that wrote it last, 0 for rows  *)
(* the requests found in place.                                            *)
(***************************************************************************)
EXTENDS Integers, Sequences, FiniteSets, TLC

VARIABLES
    materials,  \* table materials: row id |-> [price, stock, minStock, active,
                \* updatedAt]
    audit,      \* table stock_adjustments, in insertion order
    projects,   \* table projects: row id |-> [exists, status, estimatedCost,
                \* updatedAt, completedAt]
    items,      \* table project_materials, in insertion order
    last,       \* Spec: the call that ran last, with its outcome
    calls,      \* SpecConc: the call each caller has in flight
    ncalls      \* number of calls begun so far

vars == <<materials, audit, projects, items, last, calls, ncalls>>

(***************************************************************************)
(* Bounds and input domains                                                *)
(***************************************************************************)
MaxCalls == 2

\* two requests in flight at once
Callers == {1, 2}

\* an optional request field: <<>> when undefined, <<v>> when supplied
None == <<>>

Some(v) == <<v>>

\* line items / reservations offered to createProject and reserveMaterials;
\* material 3 has no row
LineItem(m, q) == [materialId |-> m, quantity |-> q]

ItemLists ==
    { <<>>,
      <<LineItem(1, 1)>>,
      <<LineItem(2, 1)>>,
      <<LineItem(1, 1), LineItem(2, 1)>>,
      <<LineItem(1, 1), LineItem(2, 2)>>,
      <<LineItem(1, 1), LineItem(1, 1)>>,
      <<LineItem(1, 2), LineItem(1, 1)>>,
      <<LineItem(3, 1)>>,
      <<LineItem(1, 1), LineItem(3, 1)>> }

SeedItemLists ==
    { <<>>,
      <<LineItem(1, 1), LineItem(2, 1)>>,
      <<LineItem(1, 1), LineItem(1, 1)>>,
      <<LineItem(1, 2), LineItem(1, 1)>> }

MaterialIds == {1, 2, 3}

ProjectIds == {1, 2}

\* const { limit = 20, offset = 0 } = params
DefaultLimit == 20

DefaultOffset == 0

\* the id arrays offered to getMaterialPricing; material 3 has no row
PricingRequests == {{}, {1}, {1, 2}, {2, 3}}

\* listProjects: const { limit = 10, offset = 0 } = params
ProjectsDefaultLimit == 10

ProjectStatus == {"planning", "in_progress", "completed", "paused", "cancelled"}

\* the bodies offered to updateProject: no field, each status alone, a title
\* alone, and materials lists: empty, one entry, one material twice, a material
\* with no row, and a list together with a status
ProjectUpdates ==
    {[status |-> None, materials |-> None, title |-> None, estimatedCost |-> None]}
    \cup {[status |-> Some(t), materials |-> None, title |-> None,
           estimatedCost |-> None] : t \in ProjectStatus}
    \cup {[status |-> None, materials |-> None, title |-> Some("t"),
           estimatedCost |-> None]}
    \cup {[status |-> None, materials |-> Some(l), title |-> None,
           estimatedCost |-> None] :
             l \in {<<>>, <<LineItem(2, 1)>>, <<LineItem(1, 2), LineItem(1, 1)>>,
                    <<LineItem(3, 1)>>}}
    \cup {[status |-> Some("completed"), materials |-> Some(<<LineItem(2, 2)>>),
           title |-> None, estimatedCost |-> None]}

Deltas == {-2, -1, 0, 1}

CreateRequests == [price : {1}, stock : {-1, 0, 2}]

\* the requests two interleaved callers draw from
ConcMaterialIds == {1, 3}

ConcItemLists ==
    { <<LineItem(1, 1)>>,
      <<LineItem(1, 2)>>,
      <<LineItem(1, 1), LineItem(3, 1)>> }

ConcUpdateRequests ==
    [price : {None}, stock : {Some(-1), Some(3)}, active : {None, Some(FALSE)}]

UpdateRequests ==
    [price : {None, Some(5)}, stock : {None, Some(-1), Some(3)},
     active : {None, Some(FALSE)}]

(***************************************************************************)
(* The stores                                                              *)
(***************************************************************************)
DB == [materials |-> materials, audit |-> audit,
       projects |-> projects, items |-> items]

\* the schema without CHECK (stock_quantity >= 0)
MaterialRowCheck_NoStockCheck(row) == row.price >= 0 /\ row.minStock >= 0

\* CHECK (price_per_unit >= 0), CHECK (stock_quantity >= 0),
\* CHECK (min_stock_level >= 0)
MaterialRowCheck(row) == row.price >= 0 /\ row.stock >= 0 /\ row.minStock >= 0

\* an insert that pushes the new row in front of the older ones
InsertAdjustment_Prepend(log, row) == <<row>> \o log

\* INSERT INTO stock_adjustments
InsertAdjustment(log, row) == Append(log, row)

Adjustment(m, before, change, after, reason) ==
    [material |-> m, before |-> before, change |-> change,
     after |-> after, reason |-> reason]

\* SELECT * FROM materials WHERE id = ... AND is_active = true
getMaterialById(mats, id) ==
    IF id \in DOMAIN mats /\ mats[id].active THEN "ok" ELSE "NotFound"

\* SELECT ... FROM projects p LEFT JOIN project_materials ... WHERE p.id = ...
getProjectById(projs, id) ==
    IF id \in DOMAIN projs /\ projs[id].exists THEN "ok" ELSE "NotFound"

RECURSIVE SumSeq(_)
SumSeq(s) == IF s = <<>> THEN 0 ELSE Head(s) + SumSeq(Tail(s))

\* the lookup without its is_active = true filter
getMaterialPricing_IncludeInactive(mats, ids) ==
    [id \in {i \in ids : i \in DOMAIN mats} |->
        [price |-> mats[id].price,
         inStock |-> mats[id].stock > 0,
         available |-> mats[id].stock]]

\* a material with no stock reported as in stock
getMaterialPricing_inStock_ZeroToo(stock_quantity) == stock_quantity >= 0

\* inStock: m.stock_quantity > 0
getMaterialPricing_inStock(stock_quantity) == stock_quantity > 0

\* SELECT id, price_per_unit, stock_quantity ... WHERE id = ANY(ids) AND is_active
getMaterialPricing(mats, ids) ==
    [id \in {i \in ids : i \in DOMAIN mats /\ mats[i].active} |->
        [price |-> mats[id].price,
         inStock |-> getMaterialPricing_inStock(mats[id].stock),
         available |-> mats[id].stock]]

\* SELECT material_id, quantity FROM project_materials WHERE project_id = ...
ProjectItems(its, id) == SelectSeq(its, LAMBDA it : it.project = id)

\* the line items read through a join with the catalog: the prices of now
ProjectView_LiveJoin(D, id) ==
    LET rows == ProjectItems(D.items, id)
    IN  [status |-> D.projects[id].status,
         estimatedCost |->
             SumSeq([i \in DOMAIN rows |->
                        rows[i].quantity * D.materials[rows[i].material].price]),
         materials |-> [i \in DOMAIN rows |->
             [materialId |-> rows[i].material, quantity |-> rows[i].quantity,
              unitPrice |-> D.materials[rows[i].material].price,
              totalPrice |-> rows[i].quantity * D.materials[rows[i].material].price]]]

\* the Project that getProjectById returns for an existing id: p.* and the
\* json_agg of its project_materials rows
ProjectView(D, id) ==
    LET rows == ProjectItems(D.items, id)
    IN  [status |-> D.projects[id].status,
         estimatedCost |-> D.projects[id].estimatedCost,
         materials |-> [i \in DOMAIN rows |->
             [materialId |-> rows[i].material, quantity |-> rows[i].quantity,
              unitPrice |-> rows[i].unitPrice,
              totalPrice |-> rows[i].totalPrice]]]

(***************************************************************************)
(* Calls                                                                   *)
(***************************************************************************)
NoUpdate == [price |-> None, stock |-> None, active |-> None]

\* an updateProject request that supplies no field
NoProjectUpdate ==
    [status |-> None, materials |-> None, title |-> None, estimatedCost |-> None]

Idle ==
    [op |-> "none", pc |-> "done", result |-> "none", id |-> 0,
     mat |-> [price |-> 0, stock |-> 0], upd |-> NoUpdate,
     delta |-> 0, reason |-> "", list |-> <<>>, rest |-> <<>>,
     cur |-> 0, new |-> 0, project |-> 0, prices |-> <<>>, cost |-> 0,
     now |-> 0, pupd |-> NoProjectUpdate, updates |-> NoProjectUpdate,
     lowStock |-> FALSE, found |-> {}, total |-> 0, ids |-> {}]

Return(D, k, result) == [D |-> D, k |-> [k EXCEPT !.pc = "done", !.result = result]]

Goto(D, k, pc) == [D |-> D, k |-> [k EXCEPT !.pc = pc]]

(***************************************************************************)
(* createMaterial                                                          *)
(***************************************************************************)
createMaterialCall(req) ==
    [Idle EXCEPT !.op = "createMaterial", !.pc = "insert", !.result = "pending",
                 !.mat = req]

\* the initial stock recorded for a material created with none
createMaterial_recordsInitial_ZeroToo(stockQuantity) == stockQuantity >= 0

\* if (req.stockQuantity > 0)
createMaterial_recordsInitial(stockQuantity) == stockQuantity > 0

createMaterialStep(D, k) ==
    CASE k.pc = "insert" ->
           LET row == [price |-> k.mat.price, stock |-> k.mat.stock, minStock |-> 0,
                       active |-> TRUE, updatedAt |-> k.now]
           IN  IF ~MaterialRowCheck(row)
               THEN Return(D, k, "ValidationFailure")
               ELSE Goto([D EXCEPT !.materials = Append(D.materials, row)],
                         [k EXCEPT !.id = Len(D.materials) + 1],
                         IF createMaterial_recordsInitial(k.mat.stock)
                         THEN "adjust" ELSE "get")
      [] k.pc = "adjust" ->
           Goto([D EXCEPT !.audit = InsertAdjustment(D.audit,
                    Adjustment(k.id, 0, k.mat.stock, k.mat.stock, "Initial stock setup"))],
                k, "get")
      [] k.pc = "get" -> Return(D, k, getMaterialById(D.materials, k.id))

(***************************************************************************)
(* updateMaterial                                                          *)
(***************************************************************************)
updateMaterialCall(id, upd) ==
    [Idle EXCEPT !.op = "updateMaterial", !.pc = "update", !.result = "pending",
                 !.id = id, !.upd = upd]

\* the guard left out: the UPDATE runs with updated_at alone
updateMaterial_noFields_Never(upd) == FALSE

\* if (updateFields.length === 0) throw new Error("No fields to update")
updateMaterial_noFields(upd) == upd = NoUpdate

ApplyUpdate(row, upd, now) ==
    [price  |-> IF upd.price = None THEN row.price ELSE upd.price[1],
     stock  |-> IF upd.stock = None THEN row.stock ELSE upd.stock[1],
     minStock |-> row.minStock,
     active |-> IF upd.active = None THEN row.active ELSE upd.active[1],
     updatedAt |-> now]

updateMaterialStep(D, k) ==
    CASE k.pc = "update" ->
           IF updateMaterial_noFields(k.upd)
           THEN Return(D, k, "NoOp")
           ELSE IF k.id \notin DOMAIN D.materials
           THEN Goto(D, k, "get")
           ELSE LET row == ApplyUpdate(D.materials[k.id], k.upd, k.now)
                IN  IF ~MaterialRowCheck(row)
                    THEN Return(D, k, "ValidationFailure")
                    ELSE Goto([D EXCEPT !.materials[k.id] = row], k, "get")
      [] k.pc = "get" -> Return(D, k, getMaterialById(D.materials, k.id))

(***************************************************************************)
(* listMaterials, getLowStockMaterials: reads                              *)
(***************************************************************************)
listMaterialsCall(lowStock) ==
    [Idle EXCEPT !.op = "listMaterials", !.pc = "select", !.result = "pending",
                 !.lowStock = lowStock]

\* the low-stock filter without its stock_quantity > 0
listMaterials_where_ZeroIncluded(row, lowStock) ==
    /\ row.active
    /\ lowStock => row.stock <= row.minStock

\* WHERE is_active = true [AND stock_quantity <= min_stock_level
\* AND stock_quantity > 0]
listMaterials_where(row, lowStock) ==
    /\ row.active
    /\ lowStock => (row.stock <= row.minStock /\ row.stock > 0)

\* LIMIT ${limit} OFFSET ${offset} over the rows in order (the order is that of
\* the ids; names are not modelled)
Page(ids, limit, offset) ==
    {id \in ids :
        LET rank == Cardinality({j \in ids : j <= id})
        IN  offset < rank /\ rank <= offset + limit}

listMaterialsStep(D, k) ==
    LET matching == {id \in DOMAIN D.materials :
                        listMaterials_where(D.materials[id], k.lowStock)}
    IN  CASE k.pc = "select" ->
               Goto(D, [k EXCEPT !.found = Page(matching, DefaultLimit, DefaultOffset)],
                    "count")
          [] k.pc = "count" ->
               Return(D, [k EXCEPT !.total = Cardinality(matching)], "ok")

getLowStockMaterialsCall ==
    [Idle EXCEPT !.op = "getLowStockMaterials", !.pc = "select", !.result = "pending"]

\* WHERE stock_quantity <= min_stock_level AND stock_quantity > 0
\* AND is_active = true
getLowStockMaterials_where(row) ==
    row.stock <= row.minStock /\ row.stock > 0 /\ row.active

getLowStockMaterialsStep(D, k) ==
    Return(D, [k EXCEPT !.found = {id \in DOMAIN D.materials :
                                      getLowStockMaterials_where(D.materials[id])}],
           "ok")

(***************************************************************************)
(* getMaterialPricing, called from outside a project handler               *)
(***************************************************************************)
getMaterialPricingCall(materialIds) ==
    [Idle EXCEPT !.op = "getMaterialPricing", !.pc = "select", !.result = "pending",
                 !.ids = materialIds]

getMaterialPricingStep(D, k) ==
    Return(D, [k EXCEPT !.prices = getMaterialPricing(D.materials, k.ids)], "ok")

(***************************************************************************)
(* updateStock                                                             *)
(***************************************************************************)
updateStockCall(id, delta) ==
    [Idle EXCEPT !.op = "updateStock", !.pc = "select", !.result = "pending",
                 !.id = id, !.delta = delta, !.reason = "adjust"]

\* the change applied with the wrong sign
updateStock_newStock_Negated(currentStock, quantityChange) == currentStock - quantityChange

\* const newStock = currentStock + req.quantityChange
updateStock_newStock(currentStock, quantityChange) == currentStock + quantityChange

\* the guard off by one
updateStock_insufficient_OffByOne(newStock) == newStock < -1

\* if (newStock < 0) throw
updateStock_insufficient(newStock) == newStock < 0

\* SET stock_quantity = stock_quantity + change: the write no longer rests on
\* the value read earlier
UpdateStockQuantity_Relative(mats, k) ==
    [mats EXCEPT ![k.id].stock = @ + k.delta, ![k.id].updatedAt = k.now]

\* UPDATE materials SET stock_quantity = ${newStock}, updated_at = NOW()
\* WHERE id = ${id}
UpdateStockQuantity(mats, k) ==
    [mats EXCEPT ![k.id].stock = k.new, ![k.id].updatedAt = k.now]

updateStockStep(D, k) ==
    CASE k.pc = "select" ->
           IF k.id \notin DOMAIN D.materials
           THEN Return(D, k, "NotFound")
           ELSE LET currentStock == D.materials[k.id].stock
                    newStock == updateStock_newStock(currentStock, k.delta)
                IN  IF updateStock_insufficient(newStock)
                    THEN Return(D, k, "InsufficientStock")
                    ELSE Goto(D, [k EXCEPT !.cur = currentStock, !.new = newStock],
                              "update")
      [] k.pc = "update" ->
           LET mats == UpdateStockQuantity(D.materials, k)
           IN  IF ~MaterialRowCheck(mats[k.id])
               THEN Return(D, k, "ValidationFailure")
               ELSE Goto([D EXCEPT !.materials = mats], k, "insert")
      [] k.pc = "insert" ->
           Goto([D EXCEPT !.audit = InsertAdjustment(D.audit,
                    Adjustment(k.id, k.cur, k.delta, k.new, k.reason))],
                k, "get")
      [] k.pc = "get" -> Return(D, k, getMaterialById(D.materials, k.id))

(***************************************************************************)
(* reserveMaterials                                                        *)
(***************************************************************************)
reserveMaterialsCall(reservations) ==
    [Idle EXCEPT !.op = "reserveMaterials", !.pc = "select", !.result = "pending",
                 !.list = reservations, !.rest = reservations, !.reason = "reserve"]

\* the guard off by one: an exact cover is refused
reserve_insufficient_OffByOne(currentStock, quantity) == currentStock <= quantity

\* if (currentStock < reservation.quantity) throw
reserve_insufficient(currentStock, quantity) == currentStock < quantity

\* const newStock = currentStock - reservation.quantity
reserve_newStock(currentStock, quantity) == currentStock - quantity

\* the audit row with the quantity not negated
reserve_adjustment_Unsigned(m, currentStock, quantity, newStock, reason) ==
    Adjustment(m, currentStock, quantity, newStock, reason)

\* VALUES (materialId, currentStock, -quantity, newStock, reason)
reserve_adjustment(m, currentStock, quantity, newStock, reason) ==
    Adjustment(m, currentStock, -quantity, newStock, reason)

\* the for loop of reserveMaterials over k.rest; a call that is done with the
\* loop goes on at after (startProject) or returns true (after = "done")
reserveLoopStep(D, k, after) ==
    CASE k.pc = "select" ->
           IF k.rest = <<>>
           THEN IF after = "done" THEN Return(D, k, "ok") ELSE Goto(D, k, after)
           ELSE LET reservation == Head(k.rest)
                IN  IF reservation.materialId \notin DOMAIN D.materials
                    THEN Return(D, k, "NotFound")
                    ELSE LET currentStock == D.materials[reservation.materialId].stock
                         IN  IF reserve_insufficient(currentStock, reservation.quantity)
                             THEN Return(D, k, "InsufficientStock")
                             ELSE Goto(D, [k EXCEPT
                                      !.id = reservation.materialId,
                                      !.delta = -reservation.quantity,
                                      !.cur = currentStock,
                                      !.new = reserve_newStock(currentStock,
                                                               reservation.quantity)],
                                    "update")
      [] k.pc = "update" ->
           LET mats == UpdateStockQuantity(D.materials, k)
           IN  IF ~MaterialRowCheck(mats[k.id])
               THEN Return(D, k, "ValidationFailure")
               ELSE Goto([D EXCEPT !.materials = mats], k, "insert")
      [] k.pc = "insert" ->
           LET D2 == [D EXCEPT !.audit = InsertAdjustment(D.audit,
                         reserve_adjustment(k.id, k.cur, Head(k.rest).quantity,
                                            k.new, k.reason))]
               k2 == [k EXCEPT !.rest = Tail(k.rest)]
           IN  IF k2.rest # <<>> THEN Goto(D2, k2, "select")
               ELSE IF after = "done" THEN Return(D2, k2, "ok")
               ELSE Goto(D2, k2, after)

reserveMaterialsStep(D, k) == reserveLoopStep(D, k, "done")

(***************************************************************************)
(* createProject                                                           *)
(***************************************************************************)
createProjectCall(lineItems) ==
    [Idle EXCEPT !.op = "createProject", !.pc = "pricing", !.result = "pending",
                 !.list = lineItems, !.rest = lineItems]

ProjectMaterial(p, m, quantity, unitPrice, totalPrice) ==
    [project |-> p, material |-> m, quantity |-> quantity,
     unitPrice |-> unitPrice, totalPrice |-> totalPrice]

\* the line total without the quantity
createProject_totalPrice_UnitOnly(quantity, price) == price

\* const totalPrice = material.quantity * pricing.price
createProject_totalPrice(quantity, price) == quantity * price

createProjectStep(D, k) ==
    CASE k.pc = "pricing" ->
           LET materialIds == {k.list[i].materialId : i \in DOMAIN k.list}
               materialPricing == getMaterialPricing(D.materials, materialIds)
           IN  IF \E i \in DOMAIN k.list :
                      k.list[i].materialId \notin DOMAIN materialPricing
               THEN Return(D, k, "MaterialNotFound")
               ELSE LET prices == [i \in DOMAIN k.list |->
                                      materialPricing[k.list[i].materialId].price]
                        estimatedCost == SumSeq([i \in DOMAIN k.list |->
                                      k.list[i].quantity * prices[i]])
                    IN  Goto(D, [k EXCEPT !.prices = prices, !.cost = estimatedCost],
                             "insertProject")
      [] k.pc = "insertProject" ->
           Goto([D EXCEPT !.projects = Append(D.projects,
                    [exists |-> TRUE, status |-> "planning", estimatedCost |-> k.cost,
                     updatedAt |-> k.now, completedAt |-> None])],
                [k EXCEPT !.project = Len(D.projects) + 1],
                IF k.rest = <<>> THEN "getp" ELSE "insertItem")
      [] k.pc = "insertItem" ->
           LET i == Len(k.list) - Len(k.rest) + 1
               material == Head(k.rest)
               totalPrice == createProject_totalPrice(material.quantity, k.prices[i])
           IN  Goto([D EXCEPT !.items = Append(D.items,
                        ProjectMaterial(k.project, material.materialId, material.quantity,
                                        k.prices[i], totalPrice))],
                    [k EXCEPT !.rest = Tail(k.rest)],
                    IF Tail(k.rest) = <<>> THEN "getp" ELSE "insertItem")
      [] k.pc = "getp" -> Return(D, k, getProjectById(D.projects, k.project))

(***************************************************************************)
(* startProject                                                            *)
(***************************************************************************)
startProjectCall(id) ==
    [Idle EXCEPT !.op = "startProject", !.pc = "items", !.result = "pending",
                 !.project = id]

\* UPDATE projects SET status = 'in_progress', updated_at = NOW() WHERE id = ${id}
SetInProgress(D, p, now) ==
    IF p \in DOMAIN D.projects /\ D.projects[p].exists
    THEN [D EXCEPT !.projects[p].status = "in_progress", !.projects[p].updatedAt = now]
    ELSE D

\* the status written before the reservation instead of after it
startProject_items_StatusFirst(D, k) ==
    LET projectMaterials == ProjectItems(D.items, k.project)
    IN  IF projectMaterials = <<>>
        THEN Return(D, k, "NoMaterials")
        ELSE LET reservations == [i \in DOMAIN projectMaterials |->
                     LineItem(projectMaterials[i].material, projectMaterials[i].quantity)]
             IN  Goto(SetInProgress(D, k.project, k.now),
                      [k EXCEPT !.list = reservations, !.rest = reservations,
                                !.reason = "Reserved for project"],
                      "select")

\* SELECT material_id, quantity FROM project_materials; throw if there is none
startProject_items(D, k) ==
    LET projectMaterials == ProjectItems(D.items, k.project)
    IN  IF projectMaterials = <<>>
        THEN Return(D, k, "NoMaterials")
        ELSE LET reservations == [i \in DOMAIN projectMaterials |->
                     LineItem(projectMaterials[i].material, projectMaterials[i].quantity)]
             IN  Goto(D, [k EXCEPT !.list = reservations, !.rest = reservations,
                                   !.reason = "Reserved for project"],
                      "select")

startProject_status(D, k) == Goto(SetInProgress(D, k.project, k.now), k, "getp")

startProjectStep(D, k) ==
    CASE k.pc = "items" -> startProject_items(D, k)
      [] k.pc \in {"select", "update", "insert"} -> reserveLoopStep(D, k, "status")
      [] k.pc = "status" -> startProject_status(D, k)
      [] k.pc = "getp" -> Return(D, k, getProjectById(D.projects, k.project))

(***************************************************************************)
(* updateProject                                                           *)
(***************************************************************************)
updateProjectCall(id, updates) ==
    [Idle EXCEPT !.op = "updateProject", !.pc = "pricing", !.result = "pending",
                 !.project = id, !.pupd = updates, !.updates = updates]

\* if (updates.materials && updates.materials.length > 0)
updateProject_replaces(updates) ==
    updates.materials # None /\ Len(updates.materials[1]) > 0

\* Object.entries(updates) with a defined value: the columns of the SET clause
updateFields(updates) ==
    {f \in {"status", "materials", "title", "estimatedCost"} : updates[f] # None}

\* the columns table projects has among those a request can name
ProjectColumns == {"status", "title", "estimatedCost"}

\* a status is written only to a project that is still in planning
ApplyProjectUpdate_FromPlanningOnly(row, updates, now) ==
    [exists |-> row.exists,
     status |-> IF updates.status = None \/ row.status # "planning"
                THEN row.status ELSE updates.status[1],
     estimatedCost |-> IF updates.estimatedCost = None THEN row.estimatedCost
                       ELSE updates.estimatedCost[1],
     updatedAt |-> now,
     completedAt |-> IF updates.status = Some("completed") THEN Some(now)
                     ELSE row.completedAt]

\* UPDATE projects SET ${updateFields.join(', ')} WHERE id = ${id}
ApplyProjectUpdate(row, updates, now) ==
    [exists |-> row.exists,
     status |-> IF updates.status = None THEN row.status ELSE updates.status[1],
     estimatedCost |-> IF updates.estimatedCost = None THEN row.estimatedCost
                       ELSE updates.estimatedCost[1],
     updatedAt |-> now,
     completedAt |-> IF updates.status = Some("completed") THEN Some(now)
                     ELSE row.completedAt]

\* DELETE FROM project_materials WHERE project_id = ${id}
DeleteItems(its, id) == SelectSeq(its, LAMBDA it : it.project # id)

updateProjectStep(D, k) ==
    CASE k.pc = "pricing" ->
           IF ~updateProject_replaces(k.updates)
           THEN Goto(D, k, "update")
           ELSE LET list == k.updates.materials[1]
                    materialIds == {list[i].materialId : i \in DOMAIN list}
                    materialPricing == getMaterialPricing(D.materials, materialIds)
                IN  IF \E i \in DOMAIN list :
                           list[i].materialId \notin DOMAIN materialPricing
                    THEN Return(D, k, "MaterialNotFound")
                    ELSE LET prices == [i \in DOMAIN list |->
                                          materialPricing[list[i].materialId].price]
                             newEstimatedCost == SumSeq([i \in DOMAIN list |->
                                          list[i].quantity * prices[i]])
                         IN  Goto(D, [k EXCEPT !.list = list, !.rest = list,
                                         !.prices = prices, !.cost = newEstimatedCost,
                                         !.updates.estimatedCost = Some(newEstimatedCost)],
                                  "deleteItems")
      [] k.pc = "deleteItems" ->
           Goto([D EXCEPT !.items = DeleteItems(D.items, k.project)], k,
                IF k.rest = <<>> THEN "update" ELSE "insertItem")
      [] k.pc = "insertItem" ->
           \* project_id REFERENCES projects(id)
           IF getProjectById(D.projects, k.project) # "ok"
           THEN Return(D, k, "DatabaseError")
           ELSE LET i == Len(k.list) - Len(k.rest) + 1
                    material == Head(k.rest)
                    totalPrice == material.quantity * k.prices[i]
                    D2 == [D EXCEPT !.items = Append(D.items,
                              ProjectMaterial(k.project, material.materialId,
                                              material.quantity, k.prices[i], totalPrice))]
                IN  IF Tail(k.rest) # <<>>
                    THEN Goto(D2, [k EXCEPT !.rest = Tail(k.rest)], "insertItem")
                    \* delete updates.materials
                    ELSE Goto(D2, [k EXCEPT !.rest = <<>>, !.updates.materials = None],
                              "update")
      [] k.pc = "update" ->
           IF updateFields(k.updates) = {}
           THEN Return(D, k, "NoOp")
           \* materials = $n names no column of table projects
           ELSE IF ~(updateFields(k.updates) \subseteq ProjectColumns)
           THEN Return(D, k, "DatabaseError")
           ELSE IF getProjectById(D.projects, k.project) # "ok"
           THEN Goto(D, k, "getp")
           ELSE Goto([D EXCEPT !.projects[k.project] =
                         ApplyProjectUpdate(@, k.updates, k.now)], k, "getp")
      [] k.pc = "getp" -> Return(D, k, getProjectById(D.projects, k.project))

(***************************************************************************)
(* deleteProject                                                           *)
(***************************************************************************)
deleteProjectCall(id) ==
    [Idle EXCEPT !.op = "deleteProject", !.pc = "deleteItems", !.result = "pending",
                 !.project = id]

\* DELETE FROM projects WHERE id = ${id}
DeleteProject(projs, id) ==
    IF id \in DOMAIN projs THEN [projs EXCEPT ![id].exists = FALSE] ELSE projs

\* const result = await db.exec`DELETE FROM projects WHERE id = ${id}`: the
\* statement has no RETURNING clause, it returns no row
deleteProject_result(projs, id) == <<>>

\* a delete that hands the quantities of the project's line items back to stock
deleteProjectStep_Restock(D, k) ==
    CASE k.pc = "deleteItems" ->
           LET rows == ProjectItems(D.items, k.project)
               back(m) == SumSeq([i \in DOMAIN rows |->
                             IF rows[i].material = m THEN rows[i].quantity ELSE 0])
           IN  Goto([D EXCEPT !.items = DeleteItems(D.items, k.project),
                              !.materials = [m \in DOMAIN D.materials |->
                                  [D.materials[m] EXCEPT !.stock = @ + back(m)]]],
                    k, "deleteProject")
      [] k.pc = "deleteProject" ->
           LET result == deleteProject_result(D.projects, k.project)
               D2 == [D EXCEPT !.projects = DeleteProject(D.projects, k.project)]
           IN  IF Len(result) = 0
               THEN Return(D2, k, "NotFound")
               ELSE Return(D2, k, "ok")

deleteProjectStep(D, k) ==
    CASE k.pc = "deleteItems" ->
           Goto([D EXCEPT !.items = DeleteItems(D.items, k.project)], k, "deleteProject")
      [] k.pc = "deleteProject" ->
           LET result == deleteProject_result(D.projects, k.project)
               D2 == [D EXCEPT !.projects = DeleteProject(D.projects, k.project)]
           IN  IF Len(result) = 0
               THEN Return(D2, k, "NotFound")
               ELSE Return(D2, k, "ok")

(***************************************************************************)
(* recalculateProjectCost                                                  *)
(***************************************************************************)
recalculateProjectCostCall(id) ==
    [Idle EXCEPT !.op = "recalculateProjectCost", !.pc = "items",
                 !.result = "pending", !.project = id]

\* UPDATE project_materials SET unit_price = ..., total_price = ...
\* WHERE project_id = ${id} AND material_id = ${pm.material_id}
RepriceItems(its, id, m, unitPrice, totalPrice) ==
    [i \in DOMAIN its |->
        IF its[i].project = id /\ its[i].material = m
        THEN [its[i] EXCEPT !.unitPrice = unitPrice, !.totalPrice = totalPrice]
        ELSE its[i]]

\* UPDATE projects SET estimated_cost = ..., updated_at = NOW() WHERE id = ${id}
SetEstimatedCost(projs, id, cost, now) ==
    IF getProjectById(projs, id) = "ok"
    THEN [projs EXCEPT ![id].estimatedCost = cost, ![id].updatedAt = now]
    ELSE projs

recalculateProjectCostStep(D, k) ==
    CASE k.pc = "items" ->
           LET projectMaterials == ProjectItems(D.items, k.project)
           IN  IF projectMaterials = <<>>
               THEN Return(D, k, "NoMaterials")
               ELSE LET list == [i \in DOMAIN projectMaterials |->
                            LineItem(projectMaterials[i].material,
                                     projectMaterials[i].quantity)]
                    IN  Goto(D, [k EXCEPT !.list = list, !.rest = list], "pricing")
      [] k.pc = "pricing" ->
           LET materialIds == {k.list[i].materialId : i \in DOMAIN k.list}
           IN  Goto(D, [k EXCEPT !.prices = getMaterialPricing(D.materials, materialIds),
                                 !.cost = 0],
                    "reprice")
      [] k.pc = "reprice" ->
           LET pm == Head(k.rest)
           IN  IF pm.materialId \notin DOMAIN k.prices
               THEN Return(D, k, "MaterialNotFound")
               ELSE LET pricing == k.prices[pm.materialId]
                        newTotalPrice == pm.quantity * pricing.price
                    IN  Goto([D EXCEPT !.items = RepriceItems(D.items, k.project,
                                        pm.materialId, pricing.price, newTotalPrice)],
                             [k EXCEPT !.cost = @ + newTotalPrice, !.rest = Tail(k.rest)],
                             IF Tail(k.rest) = <<>> THEN "cost" ELSE "reprice")
      [] k.pc = "cost" ->
           Goto([D EXCEPT !.projects = SetEstimatedCost(D.projects, k.project,
                                                        k.cost, k.now)],
                k, "getp")
      [] k.pc = "getp" -> Return(D, k, getProjectById(D.projects, k.project))

(***************************************************************************)
(* getStartableProjects: a scan that only reads                            *)
(***************************************************************************)
getStartableProjectsCall ==
    [Idle EXCEPT !.op = "getStartableProjects", !.pc = "scan", !.result = "pending"]

\* the guard off by one: an exact cover is refused
getStartable_unavailable_OffByOne(materialPricing, pm) ==
    \/ pm.material \notin DOMAIN materialPricing
    \/ ~materialPricing[pm.material].inStock
    \/ materialPricing[pm.material].available <= pm.quantity

\* if (!pricing || !pricing.inStock || pricing.available < pm.quantity)
getStartable_unavailable(materialPricing, pm) ==
    \/ pm.material \notin DOMAIN materialPricing
    \/ ~materialPricing[pm.material].inStock
    \/ materialPricing[pm.material].available < pm.quantity

\* the body of the loop over the planning projects: is project p pushed?
getStartable_allAvailable(D, p) ==
    LET projectMaterials == ProjectItems(D.items, p)
        materialIds == {projectMaterials[i].material : i \in DOMAIN projectMaterials}
        materialPricing == getMaterialPricing(D.materials, materialIds)
    IN  /\ projectMaterials # <<>>
        /\ \A i \in DOMAIN projectMaterials :
               ~getStartable_unavailable(materialPricing, projectMaterials[i])

\* SELECT DISTINCT p.id FROM projects p WHERE p.status = 'planning'
planningProjects(projs) ==
    {p \in DOMAIN projs : projs[p].exists /\ projs[p].status = "planning"}

getStartableProjectsStep(D, k) ==
    Return(D, [k EXCEPT !.found = {p \in planningProjects(D.projects) :
                                      getStartable_allAvailable(D, p)}],
           "ok")

(***************************************************************************)
(* getProject, listProjects, getProjectStats: reads of the projects store  *)
(***************************************************************************)
getProjectCall(id) ==
    [Idle EXCEPT !.op = "getProject", !.pc = "select", !.result = "pending",
                 !.project = id]

getProjectStep(D, k) ==
    IF getProjectById(D.projects, k.project) = "ok"
    THEN Return(D, [k EXCEPT !.found = {ProjectView(D, k.project)}], "ok")
    ELSE Return(D, k, "NotFound")

listProjectsCall ==
    [Idle EXCEPT !.op = "listProjects", !.pc = "select", !.result = "pending"]

\* the rows of table projects
ProjectRows(projs) == {p \in DOMAIN projs : projs[p].exists}

\* ORDER BY created_at DESC LIMIT ${limit} OFFSET ${offset}: the latest first
listProjects_page(ids, limit, offset) ==
    {id \in ids :
        LET rank == Cardinality({j \in ids : j >= id})
        IN  offset < rank /\ rank <= offset + limit}

listProjectsStep(D, k) ==
    CASE k.pc = "select" ->
           Goto(D, [k EXCEPT !.found = listProjects_page(ProjectRows(D.projects),
                                           ProjectsDefaultLimit, DefaultOffset)],
                "count")
      [] k.pc = "count" ->
           Return(D, [k EXCEPT !.total = Cardinality(ProjectRows(D.projects))], "ok")

getProjectStatsCall ==
    [Idle EXCEPT !.op = "getProjectStats", !.pc = "select", !.result = "pending"]

\* SELECT COUNT(*), SUM(estimated_cost) FROM projects and the three GROUP BY
\* counts, of which the one by status is kept
getProjectStatsStep(D, k) ==
    LET rows == ProjectRows(D.projects)
        costs == [p \in DOMAIN D.projects |->
                     IF p \in rows THEN D.projects[p].estimatedCost ELSE 0]
    IN  Return(D, [k EXCEPT
                     !.total = Cardinality(rows),
                     !.cost = SumSeq(costs),
                     !.found = {<<t, Cardinality({p \in rows : D.projects[p].status = t})>> :
                                   t \in {D.projects[p].status : p \in rows}}],
               "ok")

(***************************************************************************)
(* Running a call                                                          *)
(***************************************************************************)
Step(D, k) ==
    CASE k.op = "createMaterial" -> createMaterialStep(D, k)
      [] k.op = "updateMaterial" -> updateMaterialStep(D, k)
      [] k.op = "updateStock" -> updateStockStep(D, k)
      [] k.op = "reserveMaterials" -> reserveMaterialsStep(D, k)
      [] k.op = "createProject" -> createProjectStep(D, k)
      [] k.op = "startProject" -> startProjectStep(D, k)
      [] k.op = "updateProject" -> updateProjectStep(D, k)
      [] k.op = "deleteProject" -> deleteProjectStep(D, k)
      [] k.op = "recalculateProjectCost" -> recalculateProjectCostStep(D, k)
      [] k.op = "getStartableProjects" -> getStartableProjectsStep(D, k)
      [] k.op = "listMaterials" -> listMaterialsStep(D, k)
      [] k.op = "getMaterialPricing" -> getMaterialPricingStep(D, k)
      [] k.op = "getProject" -> getProjectStep(D, k)
      [] k.op = "listProjects" -> listProjectsStep(D, k)
      [] k.op = "getProjectStats" -> getProjectStatsStep(D, k)
      [] k.op = "getLowStockMaterials" -> getLowStockMaterialsStep(D, k)

RECURSIVE Run(_, _)
Run(D, k) ==
    IF k.pc = "done" THEN [D |-> D, k |-> k]
    ELSE LET s == Step(D, k) IN Run(s.D, s.k)

\* one request served from start to end
Serve(k) ==
    /\ \E r \in {Run(DB, [k EXCEPT !.now = ncalls + 1])} :
           /\ materials' = r.D.materials
           /\ audit' = r.D.audit
           /\ projects' = r.D.projects
           /\ items' = r.D.items
           /\ last' = r.k
    /\ ncalls' = ncalls + 1
    /\ UNCHANGED calls

createMaterial ==
    \E req \in CreateRequests :
        /\ ncalls < MaxCalls
        /\ Serve(createMaterialCall(req))

updateMaterial ==
    \E id \in MaterialIds, upd \in UpdateRequests :
        /\ ncalls < MaxCalls
        /\ Serve(updateMaterialCall(id, upd))

updateStock ==
    \E id \in MaterialIds, delta \in Deltas :
        /\ ncalls < MaxCalls
        /\ Serve(updateStockCall(id, delta))

reserveMaterials ==
    \E reservations \in ItemLists :
        /\ ncalls < MaxCalls
        /\ Serve(reserveMaterialsCall(reservations))

createProject ==
    \E lineItems \in ItemLists :
        /\ ncalls < MaxCalls
        /\ Serve(createProjectCall(lineItems))

startProject ==
    \E id \in ProjectIds :
        /\ ncalls < MaxCalls
        /\ Serve(startProjectCall(id))

updateProject ==
    \E id \in ProjectIds, updates \in ProjectUpdates :
        /\ ncalls < MaxCalls
        /\ Serve(updateProjectCall(id, updates))

deleteProject ==
    \E id \in ProjectIds :
        /\ ncalls < MaxCalls
        /\ Serve(deleteProjectCall(id))

recalculateProjectCost ==
    \E id \in ProjectIds :
        /\ ncalls < MaxCalls
        /\ Serve(recalculateProjectCostCall(id))

getStartableProjects ==
    /\ ncalls < MaxCalls
    /\ Serve(getStartableProjectsCall)

listMaterials ==
    \E lowStock \in BOOLEAN :
        /\ ncalls < MaxCalls
        /\ Serve(listMaterialsCall(lowStock))

getLowStockMaterials ==
    /\ ncalls < MaxCalls
    /\ Serve(getLowStockMaterialsCall)

GetPricing ==
    \E materialIds \in PricingRequests :
        /\ ncalls < MaxCalls
        /\ Serve(getMaterialPricingCall(materialIds))

getProject ==
    \E id \in ProjectIds :
        /\ ncalls < MaxCalls
        /\ Serve(getProjectCall(id))

listProjects ==
    /\ ncalls < MaxCalls
    /\ Serve(listProjectsCall)

getProjectStats ==
    /\ ncalls < MaxCalls
    /\ Serve(getProjectStatsCall)

(***************************************************************************)
(* Initial state: the stores as the migrations and earlier requests leave  *)
(* them: two materials created with their initial stock, one project       *)
(* created in planning.                                                    *)
(***************************************************************************)
SeedMaterial(price, stock, minStock) ==
    [price |-> price, stock |-> stock, minStock |-> minStock, active |-> TRUE,
     updatedAt |-> 0]

SeedMaterials == <<SeedMaterial(4, 2, 2), SeedMaterial(3, 1, 1)>>

\* the catalog when the project was created: material 1 cost 2 then and has
\* been repriced to 4 since
MaterialsAtCreate == [SeedMaterials EXCEPT ![1].price = 2]

\* the rows createProject stores for a request, at the seed prices
SeedProject(lineItems) ==
    Run([materials |-> MaterialsAtCreate, audit |-> <<>>, projects |-> <<>>,
         items |-> <<>>],
        createProjectCall(lineItems)).D

Init ==
    /\ materials = SeedMaterials
    /\ audit = <<Adjustment(1, 0, 2, 2, "Initial stock setup"),
                 Adjustment(2, 0, 1, 1, "Initial stock setup")>>
    /\ \E lineItems \in SeedItemLists :
          /\ projects = SeedProject(lineItems).projects
          /\ items = SeedProject(lineItems).items
    /\ last = Idle
    /\ calls = [c \in Callers |-> Idle]
    /\ ncalls = 0

Next ==
    \/ createMaterial
    \/ updateMaterial
    \/ updateStock
    \/ reserveMaterials
    \/ createProject
    \/ startProject
    \/ updateProject
    \/ deleteProject
    \/ recalculateProjectCost
    \/ getStartableProjects
    \/ listMaterials
    \/ getLowStockMaterials
    \/ GetPricing
    \/ getProject
    \/ listProjects
    \/ getProjectStats

Spec == Init /\ [][Next]_vars

(***************************************************************************)
(* Interleaved calls: a caller begins a call, then runs it one statement   *)
(* at a time while the other caller does the same.                         *)
(***************************************************************************)
Begin(c, k) ==
    /\ calls[c].pc = "done"
    /\ calls' = [calls EXCEPT ![c] = [k EXCEPT !.now = ncalls + 1]]
    /\ ncalls' = ncalls + 1
    /\ UNCHANGED <<materials, audit, projects, items, last>>

BeginCreateMaterial(c) ==
    \E req \in CreateRequests :
        /\ ncalls < MaxCalls
        /\ Begin(c, createMaterialCall(req))

BeginUpdateMaterial(c) ==
    \E id \in ConcMaterialIds, upd \in ConcUpdateRequests :
        /\ ncalls < MaxCalls
        /\ Begin(c, updateMaterialCall(id, upd))

BeginUpdateStock(c) ==
    \E id \in ConcMaterialIds, delta \in Deltas :
        /\ ncalls < MaxCalls
        /\ Begin(c, updateStockCall(id, delta))

BeginReserveMaterials(c) ==
    \E reservations \in ConcItemLists :
        /\ ncalls < MaxCalls
        /\ Begin(c, reserveMaterialsCall(reservations))

BeginStartProject(c) ==
    \E id \in {1} :
        /\ ncalls < MaxCalls
        /\ Begin(c, startProjectCall(id))

Statement(c) ==
    /\ calls[c].pc # "done"
    /\ \E s \in {Step(DB, calls[c])} :
           /\ materials' = s.D.materials
           /\ audit' = s.D.audit
           /\ projects' = s.D.projects
           /\ items' = s.D.items
           /\ calls' = [calls EXCEPT ![c] = s.k]
    /\ UNCHANGED <<last, ncalls>>

NextConc ==
    \E c \in Callers :
        \/ BeginCreateMaterial(c)
        \/ BeginUpdateMaterial(c)
        \/ BeginUpdateStock(c)
        \/ BeginReserveMaterials(c)
        \/ BeginStartProject(c)
        \/ Statement(c)

SpecConc == Init /\ [][NextConc]_vars

(***************************************************************************)
(* Properties                                                              *)
(***************************************************************************)
\* a step of Spec that served a call of handler op
Served(op) == ncalls' # ncalls /\ last'.op = op

IsPrefix(s, t) == Len(s) <= Len(t) /\ SubSeq(t, 1, Len(s)) = s

\* the rows a step appended to stock_adjustments
Appended == SubSeq(audit', Len(audit) + 1, Len(audit'))

\* C1: an AdjustStock(m, D, reason) call that succeeds leaves stock(m) equal to
\* the stock before the call plus D and appends exactly one audit entry for m,
\* with before = old stock, change = D, after = new stock.
C1_AdjustStockEffect ==
    [][(Served("updateStock") /\ last'.result = "ok") =>
         LET m == last'.id
             D == last'.delta
         IN  /\ m \in DOMAIN materials
             /\ materials'[m].stock = materials[m].stock + D
             /\ audit' = Append(audit,
                    Adjustment(m, materials[m].stock, D, materials'[m].stock,
                               last'.reason))]_vars

C1_Witness ==
    /\ last.op = "updateStock" /\ last.result = "ok" /\ last.delta < 0
    /\ audit[Len(audit)].material = last.id
    /\ audit[Len(audit)].change = last.delta

\* C2: AdjustStock(m, D, reason) fails with InsufficientStock whenever the stock
\* of m plus D is below zero, and then stock and audit log are as before.
C2_InsufficientStock ==
    [][(/\ Served("updateStock")
        /\ last'.id \in DOMAIN materials
        /\ materials[last'.id].stock + last'.delta < 0) =>
         /\ last'.result = "InsufficientStock"
         /\ materials' = materials
         /\ audit' = audit]_vars

C2_Witness ==
    /\ last.op = "updateStock" /\ last.result = "InsufficientStock"
    /\ last.id \in DOMAIN materials
    /\ materials[last.id].stock + last.delta < 0

\* C3: in every reachable state, under every interleaving of the statements of
\* Create, Update, AdjustStock, Reserve and Start calls, the stock quantity of
\* every material is at least zero.
C3_StockNonNegative == \A m \in DOMAIN materials : materials[m].stock >= 0

\* a call took the last units of material 1 and an Update that asked for a
\* negative stock of it was refused
C3_Witness ==
    /\ materials[1].stock = 0
    /\ \E c \in Callers :
         /\ calls[c].op \in {"updateStock", "reserveMaterials", "startProject"}
         /\ calls[c].result = "ok" /\ calls[c].id = 1 /\ calls[c].new = 0
    /\ \E c \in Callers :
         /\ calls[c].op = "updateMaterial" /\ calls[c].upd.stock = Some(-1)
         /\ calls[c].id = 1
         /\ calls[c].result = "ValidationFailure"

\* C4 (as claimed): a Reserve(list) that fails has changed no stock and added
\* no audit entry, whatever the position of the failing entry.
C4_AllOrNothing ==
    [][(Served("reserveMaterials") /\ last'.result # "ok") =>
         (materials' = materials /\ audit' = audit)]_vars

\* the total quantity a project's line items ask of material m
RECURSIVE Needed(_, _)
Needed(its, m) ==
    IF its = <<>> THEN 0
    ELSE (IF Head(its).material = m THEN Head(its).quantity ELSE 0)
         + Needed(Tail(its), m)

\* C5 (as claimed): Start(id) on a project whose every line item is covered by
\* the current stock of its material succeeds, sets the status to in_progress
\* and reduces the stock of each referenced material by exactly the quantity of
\* its line item, every other stock unchanged.
C5_StartPerItem ==
    [][(/\ Served("startProject")
        /\ ProjectItems(items, last'.project) # <<>>
        /\ \A i \in DOMAIN items :
             items[i].project = last'.project =>
               /\ items[i].material \in DOMAIN materials
               /\ materials[items[i].material].stock >= items[i].quantity) =>
         /\ last'.result = "ok"
         /\ projects'[last'.project].status = "in_progress"
         /\ \A i \in DOMAIN items :
              items[i].project = last'.project =>
                materials'[items[i].material].stock =
                  materials[items[i].material].stock - items[i].quantity
         /\ \A m \in DOMAIN materials :
              Needed(ProjectItems(items, last'.project), m) = 0 =>
                materials'[m].stock = materials[m].stock]_vars

\* C5 (amended): Start(id) on a project with at least one line item, where for
\* every material the total quantity of the project's line items on it is
\* covered by the current stock, succeeds, sets the status to in_progress and
\* reduces the stock of every material by exactly that total (zero for a
\* material the project does not reference).
C5_StartPerMaterial ==
    [][(/\ Served("startProject")
        /\ ProjectItems(items, last'.project) # <<>>
        /\ \A i \in DOMAIN items :
             items[i].project = last'.project => items[i].material \in DOMAIN materials
        /\ \A m \in DOMAIN materials :
             materials[m].stock >= Needed(ProjectItems(items, last'.project), m)) =>
         /\ last'.result = "ok"
         /\ projects'[last'.project].status = "in_progress"
         /\ \A m \in DOMAIN materials :
              materials'[m].stock =
                materials[m].stock - Needed(ProjectItems(items, last'.project), m)]_vars

\* a Start that succeeded on a project holding two line items for one material
C5_Witness ==
    /\ last.op = "startProject" /\ last.result = "ok"
    /\ projects[last.project].status = "in_progress"
    /\ \E i, j \in DOMAIN items :
         /\ i < j
         /\ items[i].project = last.project /\ items[j].project = last.project
         /\ items[i].material = items[j].material

\* C6: whenever Start(id) fails, with NoMaterials or because Reserve fails, the
\* status of the project (of every project) is the same as before the call.
C6_FailedStartKeepsStatus ==
    [][(Served("startProject") /\ last'.result # "ok") =>
         /\ DOMAIN projects' = DOMAIN projects
         /\ \A p \in DOMAIN projects : projects'[p].status = projects[p].status]_vars

\* a Start that failed in Reserve on a project still in planning
C6_Witness ==
    /\ last.op = "startProject" /\ last.result = "InsufficientStock"
    /\ last.project \in DOMAIN projects
    /\ projects[last.project].status = "planning"

\* the rows of log that are about material m
ForMaterial(log, m) == SelectSeq(log, LAMBDA row : row.material = m)

\* C7 (as claimed): no operation changes the stock quantity of a material
\* without appending an audit entry for it that records the old and the new
\* quantity: the entries a step appends for a material whose stock changed lead
\* from the old quantity to the new one, one entry for each mutation.
C7_EveryStockChangeAudited ==
    [][\A m \in DOMAIN materials :
         materials'[m].stock # materials[m].stock =>
           LET rows == ForMaterial(Appended, m)
           IN  /\ IsPrefix(audit, audit')
               /\ rows # <<>>
               /\ rows[1].before = materials[m].stock
               /\ rows[Len(rows)].after = materials'[m].stock
               /\ \A i \in 1..(Len(rows) - 1) : rows[i + 1].before = rows[i].after]_vars

\* C8: every audit entry ever written, by Create, AdjustStock or Reserve,
\* satisfies quantity_after = quantity_before + quantity_change and
\* quantity_after >= 0.
C8_AuditEntryArithmetic ==
    \A i \in DOMAIN audit :
        /\ audit[i].after = audit[i].before + audit[i].change
        /\ audit[i].after >= 0

\* the log holds an entry written by a reservation next to the ones written
\* when the materials were created
C8_Witness ==
    /\ \E i \in DOMAIN audit : audit[i].reason = "Initial stock setup"
    /\ \E i \in DOMAIN audit :
         audit[i].reason \in {"reserve", "Reserved for project"} /\ audit[i].change < 0
    /\ last.op \in {"updateStock", "reserveMaterials", "startProject"}

\* C9: the audit log is append-only: every entry that exists before an
\* operation of either service exists after it, in the same place and with the
\* same material, before, change, after and reason.
C9_AuditAppendOnly == [][IsPrefix(audit, audit')]_vars

\* two operations in a row have each added to the log
C9_Witness ==
    /\ ncalls = 2
    /\ Len(audit) >= 4
    /\ last.op \in {"updateStock", "reserveMaterials", "startProject", "createMaterial"}

\* a finished, successful call that wrote the stock of m exactly once
WroteOnce(k, m) ==
    /\ k.pc = "done" /\ k.result = "ok"
    /\ \/ k.op = "updateStock" /\ k.id = m
       \/ /\ k.op = "reserveMaterials"
          /\ Len(k.list) = 1 /\ k.list[1].materialId = m

\* C10: concurrent Reserve/AdjustStock calls on one material race on their
\* read-then-write of its stock.  When the only two calls made are such calls
\* on m and both succeeded, the final stock of m is the stock one of them READ
\* plus that call's own change, so a call that read before the other wrote
\* overwrites the other's change (C10_LostUpdate is reached).
C10_WriteRestsOnRead ==
    \A m \in DOMAIN materials :
        (ncalls = 2 /\ WroteOnce(calls[1], m) /\ WroteOnce(calls[2], m)) =>
            materials[m].stock \in
                {calls[1].cur + calls[1].delta, calls[2].cur + calls[2].delta}

\* both calls succeeded and the final stock is not the initial stock plus the
\* two changes: one change is lost
C10_LostUpdate ==
    \E m \in DOMAIN SeedMaterials :
        /\ ncalls = 2 /\ WroteOnce(calls[1], m) /\ WroteOnce(calls[2], m)
        /\ calls[1].delta # 0 /\ calls[2].delta # 0
        /\ calls[1].cur = SeedMaterials[m].stock
        /\ calls[2].cur = SeedMaterials[m].stock
        /\ materials[m].stock #
             SeedMaterials[m].stock + calls[1].delta + calls[2].delta

\* the line items a request asks for, priced from the catalog mats
Priced(p, list, mats) ==
    [i \in DOMAIN list |->
        ProjectMaterial(p, list[i].materialId, list[i].quantity,
                        mats[list[i].materialId].price,
                        list[i].quantity * mats[list[i].materialId].price)]

\* the sum of the line totals of a sequence of project_materials rows
TotalOf(rows) == SumSeq([i \in DOMAIN rows |-> rows[i].totalPrice])

\* C11: a successful project Create stores a project whose status is planning
\* and whose estimatedCost is the sum over the requested line items of quantity
\* times the material's catalog price at the time of the call, and stores
\* exactly one line item per requested entry, with unit price = that catalog
\* price and total price = quantity times unit price.
C11_CreateStoresSnapshot ==
    [][(Served("createProject") /\ last'.result = "ok") =>
         LET p == Len(projects) + 1
             list == last'.list
         IN  /\ Len(projects') = p
             /\ projects'[p].exists
             /\ projects'[p].status = "planning"
             /\ \A i \in DOMAIN list : list[i].materialId \in DOMAIN materials
             /\ ProjectItems(items', p) = Priced(p, list, materials)
             /\ projects'[p].estimatedCost = TotalOf(Priced(p, list, materials))
             /\ \A q \in DOMAIN projects :
                    ProjectItems(items', q) = ProjectItems(items, q)]_vars

\* a project created after material 1 was repriced to 5: two units cost 10
C11_Witness ==
    /\ last.op = "createProject" /\ last.result = "ok"
    /\ projects[last.project].status = "planning"
    /\ \E i \in DOMAIN items :
          /\ items[i].project = last.project
          /\ items[i].quantity = 2
          /\ items[i].unitPrice = 5
          /\ items[i].totalPrice = 10

\* C12: project Create fails with MaterialNotFound when any requested material
\* id is absent from the pricing result (unknown id or inactive material), and
\* then no project row and no line item is stored.
C12_CreateMaterialNotFound ==
    [][(/\ Served("createProject")
        /\ \E i \in DOMAIN last'.list :
               \/ last'.list[i].materialId \notin DOMAIN materials
               \/ ~materials[last'.list[i].materialId].active) =>
         /\ last'.result = "MaterialNotFound"
         /\ projects' = projects
         /\ items' = items]_vars

\* Create refused because a requested material was deactivated
C12_Witness ==
    /\ last.op = "createProject" /\ last.result = "MaterialNotFound"
    /\ \E i \in DOMAIN last.list :
          /\ last.list[i].materialId \in DOMAIN materials
          /\ ~materials[last.list[i].materialId].active
    /\ \A i \in DOMAIN last.list : last.list[i].materialId \in DOMAIN materials

\* C13: a project Update in which the materials field is present is a full
\* replacement: afterwards the project's line items are exactly the supplied
\* set, each priced at the catalog price at the time of the call, no line item
\* from before the call remains, and estimatedCost is the sum of quantity times
\* unit price over the supplied set; for every supplied list, the empty list
\* included.  Stated for the calls that nothing else stops: the project exists
\* and every supplied material is priced.
C13_MaterialsReplaced ==
    [][(/\ Served("updateProject")
        /\ last'.pupd.materials # None
        /\ getProjectById(projects, last'.project) = "ok"
        /\ \A i \in DOMAIN last'.pupd.materials[1] :
               getMaterialById(materials, last'.pupd.materials[1][i].materialId) = "ok") =>
         LET p == last'.project
             list == last'.pupd.materials[1]
         IN  /\ ProjectItems(items', p) = Priced(p, list, materials)
             /\ projects'[p].estimatedCost = TotalOf(Priced(p, list, materials))]_vars

\* C14: project Delete(id) on an existing project succeeds, and after it no
\* line item of that project exists and a following Get(id) fails with
\* NotFound, while every material record and every audit entry is unchanged;
\* Delete on an id with no project fails with NotFound.
C14_DeleteRemoves ==
    [][Served("deleteProject") =>
         LET p == last'.project
         IN  IF getProjectById(projects, p) = "ok"
             THEN /\ last'.result = "ok"
                  /\ ProjectItems(items', p) = <<>>
                  /\ getProjectById(projects', p) = "NotFound"
                  /\ materials' = materials
                  /\ audit' = audit
             ELSE /\ last'.result = "NotFound"
                  /\ materials' = materials
                  /\ audit' = audit]_vars

\* C15: after a successful RecalculateCost(id), every line item of the project
\* has unit price = the material's current catalog price and total price =
\* quantity times that price, and the project's estimatedCost is the sum of
\* those totals; line items and estimatedCost of other projects are unchanged.
C15_RecalculateReprices ==
    [][(Served("recalculateProjectCost") /\ last'.result = "ok") =>
         LET p == last'.project
         IN  /\ \A i \in DOMAIN items' :
                    items'[i].project = p =>
                      /\ items'[i].unitPrice = materials[items'[i].material].price
                      /\ items'[i].totalPrice =
                            items'[i].quantity * materials[items'[i].material].price
             /\ projects'[p].estimatedCost = TotalOf(ProjectItems(items', p))
             /\ \A q \in DOMAIN projects \ {p} :
                    /\ ProjectItems(items', q) = ProjectItems(items, q)
                    /\ projects'[q].estimatedCost = projects[q].estimatedCost]_vars

\* C16 (as claimed): GetStartable returns exactly the planning projects for
\* which every line item's quantity is covered by the current stock of its
\* material: no project in another status, no project with an uncovered line
\* item, and no planning project that satisfies the condition is left out.
C16_StartableExactlyCovered ==
    last.op = "getStartableProjects" =>
        last.found =
            {p \in planningProjects(projects) :
                \A i \in DOMAIN items :
                    items[i].project = p =>
                        items[i].quantity <= materials[items[i].material].stock}

\* C16 (amended): GetStartable returns exactly the planning projects that hold
\* at least one line item and for which every line item's material is active
\* and its quantity is covered by the current stock of that material.
C16_StartableActiveCoveredNonEmpty ==
    last.op = "getStartableProjects" =>
        last.found =
            {p \in planningProjects(projects) :
                /\ \E i \in DOMAIN items : items[i].project = p
                /\ \A i \in DOMAIN items :
                       items[i].project = p =>
                           /\ materials[items[i].material].active
                           /\ items[i].quantity <= materials[items[i].material].stock}

\* one planning project returned, another with an uncovered line item left out
C16_Witness ==
    /\ last.op = "getStartableProjects"
    /\ last.found # {}
    /\ \E p \in planningProjects(projects) \ last.found :
          \E i \in DOMAIN items :
             /\ items[i].project = p
             /\ materials[items[i].material].active
             /\ items[i].quantity > materials[items[i].material].stock

\* the active materials with 0 < stock_quantity <= min_stock_level
LowStock(mats) ==
    {m \in DOMAIN mats :
        mats[m].active /\ 0 < mats[m].stock /\ mats[m].stock <= mats[m].minStock}

DBNext == [materials |-> materials', audit |-> audit',
           projects |-> projects', items |-> items']

\* C17: a line item is a price snapshot: changing a material's price by
\* material Update, or deactivating the material, leaves the unit price and total
\* price of every existing line item and the estimatedCost of every project
\* unchanged, in the tables and in what Get returns for the project.
C17_PriceSnapshot ==
    [][Served("updateMaterial") =>
         /\ items' = items
         /\ projects' = projects
         /\ \A p \in DOMAIN projects :
                projects[p].exists => ProjectView(DBNext, p) = ProjectView(DB, p)]_vars

\* material repriced from 2 to 5 while a line item on it keeps unit price 2
C17_Witness ==
    /\ last.op = "updateMaterial" /\ last.result = "ok"
    /\ last.upd.price = Some(5)
    /\ materials[last.id].price = 5
    /\ \E i \in DOMAIN items :
          /\ items[i].material = last.id
          /\ items[i].unitPrice = 2
          /\ items[i].totalPrice = 2 * items[i].quantity

\* C19: an Update call (material or project) that supplies no field fails with
\* NoOp and leaves the record, its updated timestamp included, unchanged.
C19_EmptyUpdateNoOp ==
    [][(\/ Served("updateMaterial") /\ last'.upd = NoUpdate
        \/ Served("updateProject") /\ last'.pupd = NoProjectUpdate) =>
         /\ last'.result = "NoOp"
         /\ materials' = materials
         /\ projects' = projects
         /\ items' = items
         /\ audit' = audit]_vars

\* an empty Update of a material that the request before it had written: the
\* timestamp is still that of the first request
C19_Witness ==
    /\ last.op = "updateMaterial" /\ last.upd = NoUpdate /\ last.result = "NoOp"
    /\ last.now = 2
    /\ last.id \in DOMAIN materials
    /\ materials[last.id].updatedAt = 1

\* C20: status transitions are unrestricted: for every pair of statuses s, t, a
\* project Update(id, status = t) on a project currently in status s succeeds
\* and leaves the project in status t.
C20_AnyStatusTransition ==
    [][(/\ Served("updateProject")
        /\ last'.pupd.status # None
        /\ last'.pupd.materials = None
        /\ getProjectById(projects, last'.project) = "ok") =>
         /\ last'.result = "ok"
         /\ projects'[last'.project].status = last'.pupd.status[1]]_vars

\* a project that was completed and is back in planning
C20_Witness ==
    /\ last.op = "updateProject" /\ last.result = "ok"
    /\ last.pupd.status = Some("planning")
    /\ projects[last.project].status = "planning"
    /\ projects[last.project].completedAt # None

\* C21: material Create writes exactly one audit entry with quantity_before = 0
\* and quantity_change = quantity_after = the initial stock when the initial
\* stock is greater than zero, and writes no audit entry when the initial stock
\* is zero.
C21_CreateInitialAudit ==
    [][(Served("createMaterial") /\ last'.mat.stock >= 0) =>
         LET m == Len(materials) + 1
             initial == last'.mat.stock
         IN  /\ Len(materials') = m
             /\ materials'[m].stock = initial
             /\ IF initial > 0
                THEN audit' = Append(audit,
                         Adjustment(m, 0, initial, initial, "Initial stock setup"))
                ELSE audit' = audit]_vars

\* a material created with two units in stock, and its one audit entry
C21_Witness ==
    /\ last.op = "createMaterial" /\ last.result = "ok"
    /\ last.mat.stock = 2
    /\ last.id = Len(materials)
    /\ Cardinality({i \in DOMAIN audit : audit[i].material = last.id}) = 1
    /\ audit[Len(audit)] = Adjustment(last.id, 0, 2, 2, "Initial stock setup")

\* C22: stock is reserved only on behalf of a project that transitions to
\* in_progress: a second Start, on a project that the Start before it has put
\* in_progress, leaves every material's stock and the audit log unchanged.
C22_SecondStartReservesNothing ==
    [][(/\ Served("startProject")
        /\ last.op = "startProject" /\ last.result = "ok"
        /\ last.project = last'.project
        /\ projects[last'.project].status = "in_progress") =>
         /\ \A m \in DOMAIN materials : materials'[m].stock = materials[m].stock
         /\ audit' = audit]_vars

\* id m has no active material record
NoActiveRecord(mats, m) == m \notin DOMAIN mats \/ ~mats[m].active

\* C23: no operation changes the stock of a material that has no active
\* record: AdjustStock on an id that is absent or inactive, and Reserve whose
\* entries name such ids, fail with NotFound and leave the stock of those
\* materials and the audit log unchanged.
C23_NoActiveRecordUntouched ==
    [][(\/ /\ Served("updateStock")
           /\ NoActiveRecord(materials, last'.id)
        \/ /\ Served("reserveMaterials")
           /\ last'.list # <<>>
           /\ \A i \in DOMAIN last'.list :
                  NoActiveRecord(materials, last'.list[i].materialId)) =>
         /\ last'.result = "NotFound"
         /\ \A m \in DOMAIN materials :
                NoActiveRecord(materials, m) => materials'[m].stock = materials[m].stock
         /\ audit' = audit]_vars

\* C24: GetPricing(ids) returns a map whose keys are exactly the requested ids
\* that have an active material; each value carries that material's current
\* price, inStock = (stock_quantity > 0) and available = stock_quantity, and an
\* id with no active material has no key.
C24_PricingMap ==
    last.op = "getMaterialPricing" =>
        /\ DOMAIN last.prices = {id \in last.ids : ~NoActiveRecord(materials, id)}
        /\ \A id \in DOMAIN last.prices :
               /\ last.prices[id].price = materials[id].price
               /\ last.prices[id].inStock = (materials[id].stock > 0)
               /\ last.prices[id].available = materials[id].stock

\* pricing asked for material 2, which has run out of stock, and for id 3,
\* which has no row
C24_Witness ==
    /\ last.op = "getMaterialPricing"
    /\ last.ids = {2, 3}
    /\ DOMAIN last.prices = {2}
    /\ last.prices[2] = [price |-> 3, inStock |-> FALSE, available |-> 0]

\* the operations of the Project Ledger other than Start
LedgerOpsOtherThanStart ==
    {"createProject", "getProject", "listProjects", "updateProject", "deleteProject",
     "recalculateProjectCost", "getStartableProjects", "getProjectStats"}

\* C25: Project Ledger operations other than Start (Create, Get, List, Update,
\* Delete, RecalculateCost, GetStartable, Stats) leave every material's stock,
\* price and active flag and the whole audit log unchanged; only Start, through
\* Reserve, changes Materials Catalog state.
C25_LedgerLeavesCatalog ==
    [][(\E op \in LedgerOpsOtherThanStart : Served(op)) =>
         /\ materials' = materials
         /\ audit' = audit]_vars

\* a started project deleted: the stock it had reserved stays reserved
C25_Witness ==
    /\ last.op = "deleteProject"
    /\ last.project \in DOMAIN projects
    /\ ~projects[last.project].exists
    /\ projects[last.project].status = "in_progress"
    /\ ProjectItems(items, last.project) = <<>>
    /\ audit[Len(audit)].reason = "Reserved for project"
    /\ materials[audit[Len(audit)].material].stock = audit[Len(audit)].after

\* C26: for every project created through Create, after any sequence of Create,
\* Update, RecalculateCost, Start and Delete calls (successful or failed), the
\* project's estimatedCost equals the sum of the total prices of its current
\* line items.
C26_CostIsSumOfTotals ==
    \A p \in DOMAIN projects :
        projects[p].exists =>
            projects[p].estimatedCost = TotalOf(ProjectItems(items, p))

\* C27: in every reachable state, every line item satisfies total_price =
\* quantity * unit_price, including after RecalculateCost on a project that
\* holds two line items for the same material with different quantities.
C27_LineTotal ==
    \A i \in DOMAIN items :
        items[i].totalPrice = items[i].quantity * items[i].unitPrice

\* C28: when RecalculateCost(id) fails (the project has no line items, or a
\* referenced material is missing from the pricing result), the unit price and
\* total price of every line item of the project and the project's
\* estimatedCost are the same as before the call.
C28_FailedRecalculateChangesNothing ==
    [][(Served("recalculateProjectCost") /\ last'.result # "ok") =>
         LET p == last'.project
         IN  /\ ProjectItems(items', p) = ProjectItems(items, p)
             /\ p \in DOMAIN projects =>
                    projects'[p].estimatedCost = projects[p].estimatedCost]_vars

\* C29: every project returned by GetStartable can be started: if Start(id) is
\* called on a returned project with no other operation in between, Start
\* succeeds and no Reserve entry fails for insufficient stock, including when
\* the project holds several line items for the same material.
C29_StartableCanStart ==
    [][(/\ Served("startProject")
        /\ last.op = "getStartableProjects"
        /\ last'.project \in last.found) =>
         last'.result = "ok"]_vars

\* C30: whenever a material Update(id, partial) or AdjustStock(id, delta,
\* reason) call returns an error to the caller, the material record and the
\* audit log are the same as before the call; in particular an Update that sets
\* the active flag to false, and any Update or AdjustStock on an already
\* inactive material, does not both change the stored state and return
\* NotFound.
C30_ErrorMeansUnchanged ==
    [][((Served("updateMaterial") \/ Served("updateStock")) /\ last'.result # "ok") =>
         /\ materials' = materials
         /\ audit' = audit]_vars
====
